---- MODULE Spec2Model ----
(***************************************************************************)
(* Model of the structure-to-SPHInX encoder (src/sphinx_parser/ase.py) and *)
(* of the schema constructors it uses (src/stinx/input.py).                *)
(*                                                                         *)
(* The library is a set of pure functions.  The state machine is a caller  *)
(* holding one input (an ASE structure, a motion-constraint vector or the  *)
(* keyword arguments of a schema constructor) that invokes one function,   *)
(* observes what it returns or raises, and drops the result again.         *)
(*                                                                         *)
(* Python values are tagged records so that values of different Python     *)
(* types can be compared (None against a bool, a str against a dict).      *)
(* Array contents are 0-based as in Python; TLA+ sequences are 1-based, so *)
(* element i of a Python array a is a[i + 1].                              *)
(***************************************************************************)
EXTENDS Integers, Sequences, FiniteSets, TLC

\* input: the object the caller holds and hands to the functions; call and
\* result: the call in progress and what it gave; snapshot: a copy of the
\* input the caller took before the first call; again: a call has been
\* completed before.
VARIABLES input, call, result, snapshot, again

vars == <<input, call, result, snapshot, again>>

(***************************************************************************)
(* Bounds of the model.                                                    *)
(***************************************************************************)
\* largest number of atoms of a structure
MaxAtoms == 3

\* longest motion-constraint vector handed to _get_movable directly
MaxVecLen == 4

\* longest per-atom array handed to _get_species_list directly
MaxArrayLen == 2

(***************************************************************************)
(* Python values.                                                          *)
(***************************************************************************)
None == [t |-> "None"]

PyBool(b) == [t |-> "bool", b |-> b]

PyStr(s) == [t |-> "str", s |-> s]

PyInt(n) == [t |-> "int", n |-> n]

\* A float in sign-magnitude form (IEEE 754 keeps the sign apart, so that
\* 0.0 and -0.0 are two representations).  unit is "1" for a plain number
\* and "1/bohr_to_angstrom" for a number divided by the conversion constant.
PyFloat(neg, mag, unit) == [t |-> "float", neg |-> neg, mag |-> mag, unit |-> unit]

Zero == PyFloat(FALSE, 0, "1")

One == PyFloat(FALSE, 1, "1")

\* -0.0: equal to 0.0 as a number, printed with its sign
NegZero == PyFloat(TRUE, 0, "1")

MinusOne == PyFloat(TRUE, 1, "1")

PyList(items) == [t |-> "list", l |-> items]

PyArray(items) == [t |-> "ndarray", a |-> items]

\* A dict keeps insertion order: a sequence of <<key, value>> pairs.
PyDict(items) == [t |-> "dict", items |-> items]

Return(v) == [status |-> "return", value |-> v]

Raise(exc) == [status |-> "raise", exc |-> exc]

NoResult == [status |-> "none"]

\* the error for a required field that is absent: it carries the dotted
\* path of the owning node and the name of the field
ValidationError_names_no_owner(path, field) ==
    [status |-> "raise", exc |-> "ValidationError", path |-> "", field |-> field]

ValidationError(path, field) ==
    [status |-> "raise", exc |-> "ValidationError", path |-> path, field |-> field]

\* the error for a value that is not of the declared type of its field
TypeMismatch(path, field) ==
    [status |-> "raise", exc |-> "TypeError", path |-> path, field |-> field]

Keys(node) == {node.items[k][1] : k \in 1..Len(node.items)}

HasKey(node, key) == key \in Keys(node)

Get(node, key) ==
    LET k == CHOOSE k \in 1..Len(node.items) : node.items[k][1] = key
    IN  node.items[k][2]

Range(s) == {s[k] : k \in 1..Len(s)}

\* an array given element by element, as the sequence of its elements
Array(f) == f \o <<>>

\* a list built by appending the results of a loop, one after the other:
\* the first step that raises ends the loop with its error
Collect(results) ==
    IF \E k \in 1..Len(results) : results[k].status = "raise"
    THEN results[CHOOSE k \in 1..Len(results) :
                     /\ results[k].status = "raise"
                     /\ \A j \in 1..(k - 1) : results[j].status # "raise"]
    ELSE Return(PyList(Array([k \in 1..Len(results) |-> results[k].value])))

(***************************************************************************)
(* String comparison as Python does it: lexicographic on code points.      *)
(***************************************************************************)
Symbols == {"Al", "Fe", "O"}

Codepoints(s) ==
    CASE s = "Al" -> <<65, 108>>
      [] s = "Fe" -> <<70, 101>>
      [] s = "O"  -> <<79>>

RECURSIVE LexLess(_, _)
LexLess(a, b) ==
    IF b = <<>> THEN FALSE
    ELSE IF a = <<>> THEN TRUE
    ELSE IF a[1] # b[1] THEN a[1] < b[1]
    ELSE LexLess(Tail(a), Tail(b))

StrLess(a, b) == LexLess(Codepoints(a), Codepoints(b))

(***************************************************************************)
(* numpy helpers.                                                          *)
(***************************************************************************)
\* np.unique on strings: the sorted distinct values.
RECURSIVE SortedStrings(_)
SortedStrings(S) ==
    IF S = {} THEN <<>>
    ELSE LET m == CHOOSE x \in S : \A y \in S : ~StrLess(y, x)
         IN  <<m>> \o SortedStrings(S \ {m})

np_unique_str_first_seen(a) ==
    LET idx == SelectSeq(Array([i \in 1..Len(a) |-> i]),
                         LAMBDA i : \A j \in 1..(i - 1) : a[j] # a[i])
    IN  Array([k \in 1..Len(idx) |-> a[idx[k]]])

np_unique_str(a) == SortedStrings(Range(a))

\* position (0-based) of value x in the sorted distinct values u
IndexIn(u, x) == (CHOOSE k \in 1..Len(u) : u[k] = x) - 1

np_unique_inverse_first_seen(a) ==
    LET FirstAt(x) == CHOOSE i \in 1..Len(a) : a[i] = x /\ \A j \in 1..(i - 1) : a[j] # x
    IN  Array([i \in 1..Len(a) |->
            Cardinality({FirstAt(a[j]) : j \in 1..Len(a)} \cap 1..(FirstAt(a[i]) - 1))])

\* np.unique(a, return_inverse=True)[1]
np_unique_inverse(a) ==
    LET u == np_unique_str(a)
    IN  Array([i \in 1..Len(a) |-> IndexIn(u, a[i])])

\* np.argsort of a sequence of integers: the 0-based indices in ascending
\* order of their values.  For arrays this short numpy sorts by insertion,
\* which leaves equal values in index order.
RECURSIVE ArgsortRest(_, _)
ArgsortRest(a, I) ==
    IF I = {} THEN <<>>
    ELSE LET m == CHOOSE i \in I : \A j \in I :
                     a[i] < a[j] \/ (a[i] = a[j] /\ i <= j)
         IN  <<m - 1>> \o ArgsortRest(a, I \ {m})

np_argsort_descending(a) ==
    LET asc == ArgsortRest(a, 1..Len(a))
    IN  Array([k \in 1..Len(a) |-> asc[Len(a) + 1 - k]])

np_argsort(a) == ArgsortRest(a, 1..Len(a))

(***************************************************************************)
(* Ordering oracle, ase.py:90-117.                                         *)
(***************************************************************************)
\* The sort keys indices + np.arange(N) / N of ase.py:101-103, held exactly
\* as the numerators over the common denominator N:
\* class + i / N = (class * N + i) / N.
sort_keys_ramp_undivided(symbols) ==
    LET N   == Len(symbols)
        idx == np_unique_inverse(symbols)
    IN  Array([i \in 1..N |-> idx[i] * N + (i - 1) * N])

sort_keys_ramp_reversed(symbols) ==
    LET N   == Len(symbols)
        idx == np_unique_inverse(symbols)
    IN  Array([i \in 1..N |-> idx[i] * N + (N - i)])

sort_keys(symbols) ==
    LET N   == Len(symbols)
        idx == np_unique_inverse(symbols)
    IN  Array([i \in 1..N |-> idx[i] * N + (i - 1)])

id_ase_to_spx_no_argsort(structure) == np_unique_inverse(structure.symbols)

id_ase_to_spx(structure) == np_argsort(sort_keys(structure.symbols))

id_spx_to_ase_no_second_argsort(structure) == id_ase_to_spx(structure)

id_spx_to_ase(structure) == np_argsort(id_ase_to_spx(structure))

(***************************************************************************)
(* Schema node builder.  Every create() hands its fields, as name=value    *)
(* pairs, to stinx.toolkit.fill_values, which input.py:3 imports and which *)
(* is not part of the sources; it is modelled from the specification       *)
(* (section 4.1): the fields are taken in the order of the call; a         *)
(* required field that is absent is a validation error naming the field    *)
(* and the dotted path of the owning node; an optional field that is       *)
(* absent is left out; a value that is not of the declared type is an      *)
(* error; every other value is inserted as it is.  The declarations        *)
(* (required, type) of a node are those of its create() signature.         *)
(***************************************************************************)
\* The value a keyword parameter is bound to: the argument when the caller
\* passes one, else the default None of the signature.
Arg(kw, name) == IF name \in DOMAIN kw THEN kw[name] ELSE None

\* create(**d): the keyword arguments of a dict
KwOf(d) == [name \in Keys(d) |-> Get(d, name)]

\* the fields each create() declares, in the order of its fill_values
\* call; sphinx.main.create takes **kwargs and declares its fields in its
\* documentation only
Params(ctor) ==
    CASE ctor = "sphinx.structure" ->
           <<"cell", "movable", "movableX", "movableY", "movableZ", "species", "symmetry">>
      [] ctor = "sphinx.structure.species" -> <<"element", "atom">>
      [] ctor = "sphinx.structure.species.atom" ->
           <<"coords", "relative", "movableLine", "label",
             "movable", "movableX", "movableY", "movableZ">>
      [] ctor = "sphinx.structure.symmetry" -> <<"operator">>
      [] ctor = "sphinx.basis" ->
           <<"eCut", "gCut", "folding", "mesh", "meshAccuracy",
             "saveMemory", "kPoint", "kPoints">>
      [] ctor = "sphinx.initialGuess.rho.atomicSpin" -> <<"spin", "label", "file">>
      [] ctor = "sphinx.main" -> <<"scfDiag", "QN", "linQN", "ricQN", "ric", "ricTS">>

\* the parameters declared without a default
Required(ctor) ==
    CASE ctor = "sphinx.structure" -> {"cell"}
      [] ctor = "sphinx.structure.symmetry" -> {"operator"}
      [] ctor = "sphinx.basis" -> {"eCut"}
      [] OTHER -> {}

Optional(ctor) == Range(Params(ctor)) \ Required(ctor)

\* the type a create() signature (for sphinx.main, its documentation)
\* gives the parameter
DeclaredType(ctor, name) ==
    CASE name \in {"relative", "movable", "movableX", "movableY", "movableZ", "saveMemory"}
           -> "bool"
      [] name \in {"label", "element", "file"} -> "str"
      [] name \in {"eCut", "gCut", "meshAccuracy", "spin"} -> "float"
      [] name = "folding" -> "int"
      [] name \in {"cell", "movableLine", "operator", "mesh"} -> "list"
      [] name \in {"species", "symmetry", "atom", "kPoint", "kPoints",
                   "scfDiag", "QN", "linQN", "ricQN", "ric", "ricTS"} -> "dict"
      [] name = "coords" -> "ndarray"

\* A value is of a declared type in the terms of the document model
\* (specification, section 3): a boolean, a string, a number, a vector or
\* matrix of scalars, a node, or a sequence of nodes (a repeated group)
\* where a node is declared.
Compatible(type, v) ==
    CASE type = "bool" -> v.t = "bool"
      [] type = "str" -> v.t = "str"
      [] type \in {"float", "int"} -> v.t \in {"float", "int"}
      [] type \in {"list", "ndarray"} -> v.t \in {"list", "ndarray"}
      [] type = "dict" ->
           \/ v.t = "dict"
           \/ /\ v.t = "list"
              /\ \A k \in 1..Len(v.l) : v.l[k].t = "dict"

fill_values_skips_required(owner, fields) ==
    LET wrong(k) == /\ fields[k][2] # None
                    /\ ~Compatible(DeclaredType(owner, fields[k][1]), fields[k][2])
    IN  IF \E k \in 1..Len(fields) : wrong(k)
        THEN TypeMismatch(owner, fields[CHOOSE k \in 1..Len(fields) :
                 wrong(k) /\ \A j \in 1..(k - 1) : ~wrong(j)][1])
        ELSE Return(PyDict(SelectSeq(fields, LAMBDA p : p[2] # None)))

fill_values_unchecked_types(owner, fields) ==
    LET missing(k) == fields[k][2] = None /\ fields[k][1] \in Required(owner)
    IN  IF \E k \in 1..Len(fields) : missing(k)
        THEN ValidationError(owner, fields[CHOOSE k \in 1..Len(fields) :
                 missing(k) /\ \A j \in 1..(k - 1) : ~missing(j)][1])
        ELSE Return(PyDict(SelectSeq(fields, LAMBDA p : p[2] # None)))

fill_values_drops_falsy(owner, fields) ==
    Return(PyDict(SelectSeq(fields, LAMBDA p : p[2] # None /\ p[2] # PyBool(FALSE))))

\* fill_values(name=value, ...) called by the create() of node owner
fill_values(owner, fields) ==
    LET missing(k) == fields[k][2] = None /\ fields[k][1] \in Required(owner)
        wrong(k)   == /\ fields[k][2] # None
                      /\ ~Compatible(DeclaredType(owner, fields[k][1]), fields[k][2])
        failed     == {k \in 1..Len(fields) : missing(k) \/ wrong(k)}
    IN  IF failed = {}
        THEN Return(PyDict(SelectSeq(fields, LAMBDA p : p[2] # None)))
        ELSE LET k == CHOOSE k \in failed : \A j \in failed : k <= j
             IN  IF missing(k) THEN ValidationError(owner, fields[k][1])
                 ELSE TypeMismatch(owner, fields[k][1])

structure_create(kw) ==
    fill_values("sphinx.structure",
                << <<"cell", Arg(kw, "cell")>>,
                   <<"movable", Arg(kw, "movable")>>,
                   <<"movableX", Arg(kw, "movableX")>>,
                   <<"movableY", Arg(kw, "movableY")>>,
                   <<"movableZ", Arg(kw, "movableZ")>>,
                   <<"species", Arg(kw, "species")>>,
                   <<"symmetry", Arg(kw, "symmetry")>> >>)

species_create(kw) ==
    fill_values("sphinx.structure.species",
                << <<"element", Arg(kw, "element")>>,
                   <<"atom", Arg(kw, "atom")>> >>)

atom_create_relative_default_false(kw) ==
    fill_values("sphinx.structure.species.atom",
                << <<"coords", Arg(kw, "coords")>>,
                   <<"relative", IF Arg(kw, "relative") = None
                                 THEN PyBool(FALSE) ELSE Arg(kw, "relative")>>,
                   <<"movableLine", Arg(kw, "movableLine")>>,
                   <<"label", Arg(kw, "label")>>,
                   <<"movable", Arg(kw, "movable")>>,
                   <<"movableX", Arg(kw, "movableX")>>,
                   <<"movableY", Arg(kw, "movableY")>>,
                   <<"movableZ", Arg(kw, "movableZ")>> >>)

atom_create(kw) ==
    fill_values("sphinx.structure.species.atom",
                << <<"coords", Arg(kw, "coords")>>,
                   <<"relative", Arg(kw, "relative")>>,
                   <<"movableLine", Arg(kw, "movableLine")>>,
                   <<"label", Arg(kw, "label")>>,
                   <<"movable", Arg(kw, "movable")>>,
                   <<"movableX", Arg(kw, "movableX")>>,
                   <<"movableY", Arg(kw, "movableY")>>,
                   <<"movableZ", Arg(kw, "movableZ")>> >>)

symmetry_create(kw) ==
    fill_values("sphinx.structure.symmetry", << <<"operator", Arg(kw, "operator")>> >>)

basis_create(kw) ==
    fill_values("sphinx.basis",
                << <<"eCut", Arg(kw, "eCut")>>,
                   <<"gCut", Arg(kw, "gCut")>>,
                   <<"folding", Arg(kw, "folding")>>,
                   <<"mesh", Arg(kw, "mesh")>>,
                   <<"meshAccuracy", Arg(kw, "meshAccuracy")>>,
                   <<"saveMemory", Arg(kw, "saveMemory")>>,
                   <<"kPoint", Arg(kw, "kPoint")>>,
                   <<"kPoints", Arg(kw, "kPoints")>> >>)

atomicSpin_create(kw) ==
    fill_values("sphinx.initialGuess.rho.atomicSpin",
                << <<"spin", Arg(kw, "spin")>>,
                   <<"label", Arg(kw, "label")>>,
                   <<"file", Arg(kw, "file")>> >>)

\* input.py:970-986: create(**kwargs) passes the keyword arguments on as
\* the caller wrote them, in the caller's order
main_create(kw, order) ==
    fill_values("sphinx.main",
                Array([k \in 1..Len(order) |-> <<order[k], kw[order[k]]>>]))

\* A call ctor.create(**kw) from outside, the keywords written in the given
\* order: Python binds the arguments to the signature first (a parameter
\* without default that is not passed, or a name the signature does not
\* have, is a TypeError), then runs the body.  A signature of **kwargs
\* binds any keywords, in their order.
create(ctor, kw, order) ==
    IF ctor = "sphinx.main" THEN main_create(kw, order)
    ELSE IF \/ ~(DOMAIN kw \subseteq Range(Params(ctor)))
            \/ ~(Required(ctor) \subseteq DOMAIN kw)
    THEN Raise("TypeError")
    ELSE CASE ctor = "sphinx.structure" -> structure_create(kw)
           [] ctor = "sphinx.structure.species" -> species_create(kw)
           [] ctor = "sphinx.structure.species.atom" -> atom_create(kw)
           [] ctor = "sphinx.structure.symmetry" -> symmetry_create(kw)
           [] ctor = "sphinx.basis" -> basis_create(kw)
           [] ctor = "sphinx.initialGuess.rho.atomicSpin" -> atomicSpin_create(kw)

(***************************************************************************)
(* The ASE structure, as get_structure_group reads it: the cell, the       *)
(* positions, the chemical symbols, the initial magnetic moments and the   *)
(* motion-constraint flags.                                                *)
(***************************************************************************)
\* structure.cell
CellOf(structure) == structure.cell

\* structure.positions
PositionsOf(structure) == structure.positions

(***************************************************************************)
(* Structure encoder, ase.py:7-87.                                         *)
(***************************************************************************)
\* x / bohr_to_angstrom; zero divided by the constant is zero
DivBohr(x) == IF x.mag = 0 THEN x ELSE [x EXCEPT !.unit = "1/bohr_to_angstrom"]

_to_angstrom_in_place(cell, positions) ==
    LET converted(a) == Array([r \in 1..Len(a) |->
                            Array([c \in 1..3 |-> DivBohr(a[r][c])])])
    IN  [cell      |-> converted(cell),
         positions |-> converted(positions),
         args      |-> [cell |-> converted(cell), positions |-> converted(positions)]]

\* ase.py:7-11, on a cell (3 rows) and positions (N rows) of 3 floats each.
\* The record also holds, as args, the two arrays of the caller as the call
\* leaves them: np.array(...) copies its argument and the division builds a
\* new array, so they are what they were.
_to_angstrom(cell, positions) ==
    [cell      |-> Array([r \in 1..Len(cell) |->
                       Array([c \in 1..3 |-> DivBohr(cell[r][c])])]),
     positions |-> Array([r \in 1..Len(positions) |->
                       Array([c \in 1..3 |-> DivBohr(positions[r][c])])]),
     args      |-> [cell |-> cell, positions |-> positions]]

\* str() of a float with an integral value, as the f-string formats it
Digit(n) ==
    CASE n = 0 -> "0" [] n = 1 -> "1" [] n = 2 -> "2" [] n = 3 -> "3" [] n = 4 -> "4"
      [] n = 5 -> "5" [] n = 6 -> "6" [] n = 7 -> "7" [] n = 8 -> "8" [] n = 9 -> "9"

FloatStr(x) == (IF x.neg THEN "-" ELSE "") \o Digit(x.mag) \o ".0"

_get_spin_label(spin) == "spin_" \o FloatStr(spin)

AxisKeys == <<"movableX", "movableY", "movableZ">>

MinOf(a, b) == IF a < b THEN a ELSE b

\* dict(zip(AxisKeys, selective)): zip stops at the shorter of the two
ZipAxes(selective) ==
    Array([k \in 1..MinOf(Len(AxisKeys), Len(selective)) |->
              <<AxisKeys[k], PyBool(selective[k])>>])

get_movable_drops_false(selective) ==
    IF \A k \in 1..Len(selective) : selective[k]
    THEN PyDict(<< <<"movable", PyBool(TRUE)>> >>)
    ELSE IF \E k \in 1..Len(selective) : selective[k]
    THEN PyDict(SelectSeq(ZipAxes(selective), LAMBDA p : p[2].b))
    ELSE PyDict(<< <<"movable", PyBool(FALSE)>> >>)

\* ase.py:17-23
_get_movable(selective) ==
    IF \A k \in 1..Len(selective) : selective[k]
    THEN PyDict(<< <<"movable", PyBool(TRUE)>> >>)
    ELSE IF \E k \in 1..Len(selective) : selective[k]
    THEN PyDict(ZipAxes(selective))
    ELSE PyDict(<< <<"movable", PyBool(FALSE)>> >>)

Masked_reversed(a, mask) ==
    LET idx == SelectSeq(Array([i \in 1..Len(a) |-> i]), LAMBDA i : mask[i])
    IN  Array([k \in 1..Len(idx) |-> a[idx[Len(idx) + 1 - k]]])

\* a[mask] for a boolean mask: the rows where the mask is true, in order
RECURSIVE Masked(_, _)
Masked(a, mask) ==
    IF a = <<>> THEN <<>>
    ELSE (IF mask[1] THEN <<a[1]>> ELSE <<>>) \o Masked(Tail(a), Tail(mask))

\* ase.py:33-38, the record of one atom
atom_record(elm_pos, elm_magmom, selective) ==
    LET atom_group == PyDict(<< <<"coords", PyArray(elm_pos)>>,
                                <<"label", PyStr(_get_spin_label(elm_magmom))>> >>
                             \o _get_movable(selective).items)
    IN  atom_create(KwOf(atom_group))

_get_atom_list_spins_unmasked(positions, spins, movable, elm_list) ==
    IF \/ Len(positions) # Len(elm_list)
       \/ Len(spins) # Len(elm_list)
       \/ Len(movable) # Len(elm_list)
    THEN Raise("IndexError")
    ELSE LET P == Masked(positions, elm_list)
             M == Masked(movable, elm_list)
         IN  Collect(Array([k \in 1..Len(P) |-> atom_record(P[k], spins[k], M[k])]))

\* ase.py:26-39.  A boolean mask whose length is not the array's is an
\* IndexError of numpy.
_get_atom_list(positions, spins, movable, elm_list) ==
    IF \/ Len(positions) # Len(elm_list)
       \/ Len(spins) # Len(elm_list)
       \/ Len(movable) # Len(elm_list)
    THEN Raise("IndexError")
    ELSE LET P == Masked(positions, elm_list)
             S == Masked(spins, elm_list)
             M == Masked(movable, elm_list)
         IN  Collect(Array([k \in 1..Len(P) |-> atom_record(P[k], S[k], M[k])]))

_get_species_list_per_atom(positions, elements, spins, movable) ==
    LET lists == Array([g \in 1..Len(elements) |->
                    _get_atom_list(positions, spins, movable,
                        Array([i \in 1..Len(elements) |-> elements[i] = elements[g]]))])
    IN  Collect(Array([g \in 1..Len(elements) |->
            IF lists[g].status = "raise" THEN lists[g]
            ELSE species_create([element |-> PyStr(elements[g]), atom |-> lists[g].value])]))

\* ase.py:42-50: one species group per value of np.unique(elements), the
\* atoms of the group picked by the mask elements == elm_species
_get_species_list(positions, elements, spins, movable) ==
    LET u     == np_unique_str(elements)
        lists == Array([g \in 1..Len(u) |->
                    _get_atom_list(positions, spins, movable,
                        Array([i \in 1..Len(elements) |-> elements[i] = u[g]]))])
    IN  Collect(Array([g \in 1..Len(u) |->
            IF lists[g].status = "raise" THEN lists[g]
            ELSE species_create([element |-> PyStr(u[g]), atom |-> lists[g].value])]))

\* the number a float stands for: 0.0 and -0.0 are the same number
FloatVal(x) == IF x.neg THEN 0 - x.mag ELSE x.mag

\* np.unique on floats: sort, then keep the first of every run of equal numbers
np_unique_float(a) ==
    LET ord    == np_argsort(Array([i \in 1..Len(a) |-> FloatVal(a[i])]))
        sorted == Array([k \in 1..Len(a) |-> a[ord[k] + 1]])
        first  == Array([k \in 1..Len(a) |->
                     k = 1 \/ FloatVal(sorted[k]) # FloatVal(sorted[k - 1])])
    IN  Masked(sorted, first)

\* ase.py:53-59
_get_spin_list(labels) ==
    LET u == np_unique_float(labels)
    IN  Collect(Array([k \in 1..Len(u) |->
            atomicSpin_create([label |-> PyStr(_get_spin_label(u[k])), spin |-> u[k]])]))

Movable_not_inverted(structure) ==
    Array([i \in 1..Len(structure.fixed) |->
              Array([c \in 1..3 |-> structure.fixed[i][c]])])

\* ~_handle_ase_constraints(structure), ase.py:74: per atom and axis, not fixed
Movable(structure) ==
    Array([i \in 1..Len(structure.fixed) |->
              Array([c \in 1..3 |-> ~structure.fixed[i][c]])])

\* The structure as lines 73-77 leave it: the only call that is handed
\* arrays of the structure itself is _to_angstrom; the negated constraints,
\* the moments and the symbols are new arrays, and nothing is assigned to.
structure_after(structure) ==
    LET conv == _to_angstrom(CellOf(structure), PositionsOf(structure))
    IN  [structure EXCEPT !.cell = conv.args.cell, !.positions = conv.args.positions]

\* ase.py:62-87.  Lines 73-77 prepare the arrays and build the species
\* groups.  With use_symmetry false, line 81 reads the attribute
\* sphinx.structure.symmetry.operator, which class symmetry
\* (input.py:126-137) does not have: AttributeError.  Otherwise lines 83-85
\* build the structure node with symmetry=None, and line 86 reads the name
\* labels, which neither the function nor the module binds: NameError.
\* No path reaches the return of line 87.
get_structure_group(structure, use_symmetry) ==
    LET conv     == _to_angstrom(CellOf(structure), PositionsOf(structure))
        movable  == Movable(structure)
        spins    == structure.magmoms
        elements == structure.symbols
        species  == _get_species_list(conv.positions, elements, spins, movable)
    IN  IF species.status = "raise" THEN species
        ELSE IF ~use_symmetry THEN Raise("AttributeError")
        ELSE Raise("NameError")

(***************************************************************************)
(* Inputs of the caller.                                                   *)
(***************************************************************************)
\* magnetic moments of an atom
Moments == {Zero, One}

\* magnetic moments of either sign, as a flipped spin arrangement has them
SignedMoments == {Zero, NegZero, One, MinusOne}

\* motion-constraint flags of an atom (true: fixed on that axis), as
\* _handle_ase_constraints gives them: free, fixed, fixed along y only
Free == <<FALSE, FALSE, FALSE>>

FixedFlags == {Free, <<TRUE, TRUE, TRUE>>, <<FALSE, TRUE, FALSE>>}

\* The structures of the model: structures of up to three elements without
\* magnetic moments or constraints, structures of the two elements below
\* with any moments and constraints, and structures of one element with
\* moments of either sign.
MagneticSymbols == {"Fe", "O"}

\* The cell is the identity matrix and atom i (1-based) sits at (i, 0, 0),
\* so that every atom has coordinates of its own.
IdentityCell == <<<<One, Zero, Zero>>, <<Zero, One, Zero>>, <<Zero, Zero, One>>>>

NativePositions(n) == Array([i \in 1..n |-> <<PyFloat(FALSE, i, "1"), Zero, Zero>>])

StructureInput(s, m, f) ==
    [kind |-> "structure", cell |-> IdentityCell, positions |-> NativePositions(Len(s)),
     symbols |-> s, magmoms |-> m, fixed |-> f]

SelectiveInput(v) == [kind |-> "selective", v |-> v]

\* A structure provider whose per-atom sequences each have a length of
\* their own: np positions, the symbols e, the moments sp and nm rows of
\* constraint flags (no axis fixed).  It is an invalid input unless the four
\* lengths agree.
ArraysInput(np, e, sp, nm) ==
    [kind |-> "arrays", cell |-> IdentityCell, positions |-> NativePositions(np),
     symbols |-> e, magmoms |-> sp, fixed |-> Array([i \in 1..nm |-> Free])]

\* a keyword argument the caller does not pass
Omitted == [t |-> "omitted"]

OptBool == {None, PyBool(TRUE), PyBool(FALSE)}

SampleCoords == PyArray(<<One, Zero, Zero>>)

SampleList == PyList(<<One, One, One>>)

SampleNode == PyDict(<< <<"element", PyStr("Fe")>> >>)

\* the keyword arguments that are passed
Supplied(full) == [n \in {m \in DOMAIN full : full[m] # Omitted} |-> full[n]]

\* the keywords in the order the fields are declared
DeclaredOrder(ctor, kw) == SelectSeq(Params(ctor), LAMBDA name : name \in DOMAIN kw)

\* the orders in which a caller can write the keywords
Orders(kw) ==
    {order \in [1..Cardinality(DOMAIN kw) -> DOMAIN kw] : Range(order) = DOMAIN kw}

KwargsInput(ctor, kw, order) ==
    [kind |-> "kwargs", ctor |-> ctor, kw |-> kw, order |-> order]

\* a call with all its keywords, written in the order of the declaration
Call(ctor, full) == KwargsInput(ctor, Supplied(full), DeclaredOrder(ctor, Supplied(full)))

CreateInputs ==
    {Call("sphinx.structure.species.atom", full) :
        full \in [coords : {None, SampleCoords}, relative : OptBool,
                  movableLine : {None, SampleList}, label : {None, PyStr("spin_1.0")},
                  movable : OptBool \cup {PyStr("yes")}, movableX : OptBool,
                  movableY : OptBool, movableZ : OptBool]}
    \cup
    {Call("sphinx.structure", full) :
        full \in [cell : {Omitted, None, PyArray(IdentityCell)},
                  movable : OptBool, movableX : {None, PyBool(TRUE)},
                  movableY : {None, PyBool(FALSE)}, movableZ : {None, PyBool(TRUE)},
                  species : {None, PyList(<<SampleNode>>)},
                  symmetry : {None, PyDict(<< <<"operator", SampleList>> >>)}]}
    \cup
    {Call("sphinx.structure.species", full) :
        full \in [element : {None, PyStr("Fe")}, atom : {None, PyList(<<>>), SampleList}]}
    \cup
    {Call("sphinx.structure.symmetry", full) :
        full \in [operator : {Omitted, None, SampleList}]}
    \cup
    {Call("sphinx.basis", full) :
        full \in [eCut : {Omitted, None, One}, gCut : {None, One}, folding : {None, PyInt(1)},
                  mesh : {None, SampleList}, meshAccuracy : {None, One},
                  saveMemory : OptBool, kPoint : {None, SampleNode},
                  kPoints : {None, SampleNode}]}
    \cup
    {Call("sphinx.initialGuess.rho.atomicSpin", full) :
        full \in [spin : {None, Zero, One}, label : {None, PyStr("spin_1.0")},
                  file : {None, PyStr("spins.dat")}]}

\* calls whose keywords are written in every possible order: an atom with
\* coordinates, label and movability, and the main group with up to three
\* of its sub-groups
OrderedInputs ==
    LET atom == [coords |-> SampleCoords, label |-> PyStr("spin_1.0"),
                 movable |-> PyBool(FALSE)]
    IN  {KwargsInput("sphinx.structure.species.atom", atom, order) : order \in Orders(atom)}
        \cup
        UNION {{KwargsInput("sphinx.main", Supplied(full), order) :
                   order \in Orders(Supplied(full))} :
                 full \in [scfDiag : {Omitted, SampleNode}, QN : {Omitted, None, SampleNode},
                           ricTS : {Omitted, SampleNode}]}

(***************************************************************************)
(* The caller.                                                             *)
(***************************************************************************)
Idle == [fn |-> "none"]

Init ==
    /\ \/ \E n \in 0..MaxAtoms :
             \E s \in [1..n -> Symbols] :
                input = StructureInput(s, [i \in 1..n |-> Zero], [i \in 1..n |-> Free])
       \/ \E n \in 0..MaxAtoms :
             \E s \in [1..n -> MagneticSymbols], m \in [1..n -> Moments],
                f \in [1..n -> FixedFlags] :
                input = StructureInput(s, m, f)
       \/ \E n \in 1..MaxAtoms :
             \E m \in [1..n -> SignedMoments] :
                input = StructureInput([i \in 1..n |-> "Fe"], m, [i \in 1..n |-> Free])
       \/ \E n \in 0..MaxVecLen :
             \E v \in [1..n -> BOOLEAN] : input = SelectiveInput(v)
       \/ \E np \in 0..MaxArrayLen, ne \in 0..MaxArrayLen,
             ns \in 0..MaxArrayLen, nm \in 0..MaxArrayLen :
             \E e \in [1..ne -> MagneticSymbols], sp \in [1..ns -> Moments] :
                input = ArraysInput(np, e, sp, nm)
       \/ input \in CreateInputs
       \/ input \in OrderedInputs
    /\ call = Idle
    /\ result = NoResult
    /\ snapshot = input
    /\ again = FALSE

Call_id_ase_to_spx_scalar_division ==
    /\ call = Idle
    /\ input.kind = "structure"
    /\ call' = [fn |-> "id_ase_to_spx"]
    /\ result' = IF Len(input.symbols) = 0 THEN Raise("ZeroDivisionError")
                 ELSE Return(PyArray(id_ase_to_spx(input)))
    /\ UNCHANGED <<input, snapshot, again>>

\* ase.py:101-104 reads the symbols through get_chemical_symbols();
\* np.unique, the ramp and np.argsort build new arrays
Call_id_ase_to_spx ==
    /\ call = Idle
    /\ input.kind = "structure"
    /\ call' = [fn |-> "id_ase_to_spx"]
    /\ result' = Return(PyArray(id_ase_to_spx(input)))
    /\ UNCHANGED <<input, snapshot, again>>

Call_id_spx_to_ase ==
    /\ call = Idle
    /\ input.kind = "structure"
    /\ call' = [fn |-> "id_spx_to_ase"]
    /\ result' = Return(PyArray(id_spx_to_ase(input)))
    /\ UNCHANGED <<input, snapshot, again>>

Call_get_structure_group ==
    /\ call = Idle
    /\ input.kind \in {"structure", "arrays"}
    /\ \E use_symmetry \in BOOLEAN :
          /\ call' = [fn |-> "get_structure_group", use_symmetry |-> use_symmetry]
          /\ result' = get_structure_group(input, use_symmetry)
    /\ input' = structure_after(input)
    /\ UNCHANGED <<snapshot, again>>

\* _get_species_list on the arrays get_structure_group prepares at lines 73-76 and passes at line 77
Call_get_species_list ==
    /\ call = Idle
    /\ input.kind \in {"structure", "arrays"}
    /\ call' = [fn |-> "_get_species_list"]
    /\ result' = _get_species_list(_to_angstrom(CellOf(input), PositionsOf(input)).positions,
                                   input.symbols, input.magmoms, Movable(input))
    /\ input' = structure_after(input)
    /\ UNCHANGED <<snapshot, again>>

\* _get_spin_list on the magnetic moments of the structure
Call_get_spin_list ==
    /\ call = Idle
    /\ input.kind = "structure"
    /\ call' = [fn |-> "_get_spin_list"]
    /\ result' = _get_spin_list(input.magmoms)
    /\ UNCHANGED <<input, snapshot, again>>

Call_get_movable ==
    /\ call = Idle
    /\ input.kind = "selective"
    /\ call' = [fn |-> "_get_movable"]
    /\ result' = Return(_get_movable(input.v))
    /\ UNCHANGED <<input, snapshot, again>>

Call_create ==
    /\ call = Idle
    /\ input.kind = "kwargs"
    /\ call' = [fn |-> "create"]
    /\ result' = create(input.ctor, input.kw, input.order)
    /\ UNCHANGED <<input, snapshot, again>>

\* the caller drops the result; the input is what it was
Done ==
    /\ call # Idle
    /\ call' = Idle
    /\ result' = NoResult
    /\ again' = TRUE
    /\ UNCHANGED <<input, snapshot>>

Next ==
    \/ Call_id_ase_to_spx
    \/ Call_id_spx_to_ase
    \/ Call_get_structure_group
    \/ Call_get_species_list
    \/ Call_get_spin_list
    \/ Call_get_movable
    \/ Call_create
    \/ Done

Spec == Init /\ [][Next]_vars

(***************************************************************************)
(* Properties.                                                             *)
(***************************************************************************)
Returned(fn) == call.fn = fn /\ result.status = "return"

\* number of atoms of the structure held as input
NAtoms == Len(input.symbols)

\* The position (0-based) native atom i (0-based) has when the atoms are
\* grouped by species, the species in ascending order of their labels and
\* the atoms of one species in their native order.
GroupedPos(symbols, i) ==
    Cardinality({j \in 1..Len(symbols) : StrLess(symbols[j], symbols[i + 1])})
    + Cardinality({j \in 1..i : symbols[j] = symbols[i + 1]})

\* C1: composing the index maps id_ase_to_spx and id_spx_to_ase of one
\* structure in either order gives the identity on [0, N).
C1_RoundTrip ==
    /\ Returned("id_ase_to_spx") =>
          LET f == result.value.a
              g == id_spx_to_ase(input)
          IN  \A i \in 0..(NAtoms - 1) : g[f[i + 1] + 1] = i /\ f[g[i + 1] + 1] = i
    /\ Returned("id_spx_to_ase") =>
          LET g == result.value.a
              f == id_ase_to_spx(input)
          IN  \A i \in 0..(NAtoms - 1) : g[f[i + 1] + 1] = i /\ f[g[i + 1] + 1] = i

\* a structure whose two index maps differ from each other and from the identity
C1_Witness ==
    /\ Returned("id_ase_to_spx")
    /\ input.symbols = <<"O", "Fe", "Fe">>
    /\ result.value.a = <<1, 2, 0>>
    /\ id_spx_to_ase(input) = <<2, 0, 1>>

\* C2: id_ase_to_spx and id_spx_to_ase each return an array of length N that
\* holds every integer of [0, N) exactly once.
C2_Bijection ==
    (Returned("id_ase_to_spx") \/ Returned("id_spx_to_ase")) =>
        /\ Len(result.value.a) = NAtoms
        /\ Range(result.value.a) = 0..(NAtoms - 1)

C2_Witness ==
    /\ Returned("id_spx_to_ase")
    /\ input.symbols = <<"O", "Al", "Fe">>
    /\ result.value.a = <<2, 0, 1>>

\* C3 as stated: id_ase_to_spx maps a native index to its grouped position
\* and id_spx_to_ase maps a grouped position to the native index.
C3_AsStated ==
    /\ Returned("id_ase_to_spx") =>
          \A i \in 0..(NAtoms - 1) : result.value.a[i + 1] = GroupedPos(input.symbols, i)
    /\ Returned("id_spx_to_ase") =>
          \A k \in 0..(NAtoms - 1) : GroupedPos(input.symbols, result.value.a[k + 1]) = k

\* C3 amended: the directions are the other way round.  id_ase_to_spx(s)[k]
\* is the native index of the atom at grouped position k, and
\* id_spx_to_ase(s)[i] is the grouped position of native atom i.
C3_Directions ==
    /\ Returned("id_ase_to_spx") =>
          \A k \in 0..(NAtoms - 1) : GroupedPos(input.symbols, result.value.a[k + 1]) = k
    /\ Returned("id_spx_to_ase") =>
          \A i \in 0..(NAtoms - 1) : result.value.a[i + 1] = GroupedPos(input.symbols, i)

\* grouped order Fe(1), Fe(2), O(0): the array lists native indices
C3_Witness ==
    /\ Returned("id_ase_to_spx")
    /\ input.symbols = <<"O", "Fe", "Fe">>
    /\ result.value.a[1] = 1
    /\ GroupedPos(input.symbols, 0) = 2

\* C4: on a vector of three booleans _get_movable returns {movable: true}
\* when all are true, {movable: false} when all are false, and otherwise
\* exactly the keys movableX, movableY, movableZ bound to the three entries.
C4_Movable ==
    (Returned("_get_movable") /\ Len(input.v) = 3) =>
        LET v == input.v
            d == result.value
        IN  IF v[1] /\ v[2] /\ v[3]
            THEN d = PyDict(<< <<"movable", PyBool(TRUE)>> >>)
            ELSE IF ~v[1] /\ ~v[2] /\ ~v[3]
            THEN d = PyDict(<< <<"movable", PyBool(FALSE)>> >>)
            ELSE /\ Len(d.items) = 3
                 /\ Keys(d) = {"movableX", "movableY", "movableZ"}
                 /\ Get(d, "movableX") = PyBool(v[1])
                 /\ Get(d, "movableY") = PyBool(v[2])
                 /\ Get(d, "movableZ") = PyBool(v[3])

C4_Witness ==
    /\ Returned("_get_movable")
    /\ input.v = <<TRUE, FALSE, TRUE>>
    /\ Get(result.value, "movableY") = PyBool(FALSE)

\* C5: a motion-constraint vector whose length is not 3 is rejected with an
\* error; it never yields a descriptor.
C5_WrongArityRejected ==
    (call.fn = "_get_movable" /\ Len(input.v) # 3) => result.status = "raise"

\* the coordinates get_structure_group hands on for native atom i (1-based)
CoordsOfAtom(i) == PyArray(<<PyFloat(FALSE, i, "1/bohr_to_angstrom"), Zero, Zero>>)

\* the atom records of species group g
AtomsOf(groups, g) == Get(groups[g], "atom").l

\* the places <<g, k>> of the atom records that carry the coordinates of atom i
PlacesOf(groups, i) ==
    {p \in UNION {{<<g, k>> : k \in 1..Len(AtomsOf(groups, g))} : g \in 1..Len(groups)} :
        Get(AtomsOf(groups, p[1])[p[2]], "coords") = CoordsOfAtom(i)}

RECURSIVE TotalAtoms(_, _)
TotalAtoms(groups, g) ==
    IF g = 0 THEN 0 ELSE Len(AtomsOf(groups, g)) + TotalAtoms(groups, g - 1)

\* C6: the species groups of _get_species_list partition the atoms: one
\* group per distinct element, every atom in exactly one group, the group of
\* its own element, and N atom records in all.
C6_Partition ==
    Returned("_get_species_list") =>
        LET groups == result.value.l
        IN  /\ Len(groups) = Cardinality(Range(input.symbols))
            /\ {Get(groups[g], "element") : g \in 1..Len(groups)}
                  = {PyStr(e) : e \in Range(input.symbols)}
            /\ \A i \in 1..NAtoms :
                  /\ Cardinality(PlacesOf(groups, i)) = 1
                  /\ \A p \in PlacesOf(groups, i) :
                        Get(groups[p[1]], "element") = PyStr(input.symbols[i])
            /\ TotalAtoms(groups, Len(groups)) = NAtoms

C6_Witness ==
    /\ Returned("_get_species_list")
    /\ input.symbols = <<"O", "Fe", "O">>
    /\ Len(result.value.l) = 2
    /\ Len(AtomsOf(result.value.l, 2)) = 2

\* C7: get_structure_group returns, with the structure node, one spin
\* declaration per distinct magnetic moment of the atoms, each pairing the
\* label of the value with the value, in ascending order of the value
\* (stated for the calls with the default use_symmetry=True).
C7_SpinDeclarations ==
    (call.fn = "get_structure_group" /\ call.use_symmetry) =>
        /\ result.status = "return"
        /\ LET decl   == result.value[2].l
               values == {FloatVal(m) : m \in Range(input.magmoms)}
           IN  /\ Len(decl) = Cardinality(values)
               /\ \A k \in 1..Len(decl) :
                     /\ FloatVal(Get(decl[k], "spin")) \in values
                     /\ Get(decl[k], "label") = PyStr(_get_spin_label(Get(decl[k], "spin")))
               /\ \A k \in 1..(Len(decl) - 1) :
                     FloatVal(Get(decl[k], "spin")) < FloatVal(Get(decl[k + 1], "spin"))

\* C8: get_structure_group completes for every structure; with
\* use_symmetry false the structure node has a symmetry key holding an
\* operator, with use_symmetry true it has no symmetry key.
C8_SymmetryKey ==
    call.fn = "get_structure_group" =>
        /\ result.status = "return"
        /\ LET node == result.value[1]
           IN  IF call.use_symmetry
               THEN ~HasKey(node, "symmetry")
               ELSE HasKey(node, "symmetry") /\ HasKey(Get(node, "symmetry"), "operator")

\* C9: the node a schema constructor returns has a key for every optional
\* field that was supplied and none for an optional field that was None.
C9_OptionalKeys ==
    Returned("create") =>
        \A f \in Optional(input.ctor) :
            HasKey(result.value, f) <=> (Arg(input.kw, f) # None)

C9_Witness ==
    /\ Returned("create")
    /\ input.ctor = "sphinx.structure.species.atom"
    /\ Arg(input.kw, "relative") = None
    /\ Arg(input.kw, "movable") = PyBool(FALSE)
    /\ Arg(input.kw, "label") # None
    /\ Keys(result.value) = {"label", "movable"}

KeySeq(node) == Array([k \in 1..Len(node.items) |-> node.items[k][1]])

\* the keys of the node are in the order the constructor declares its fields
InDeclaredOrder(ctor, node) ==
    LET keys == KeySeq(node)
    IN  \A k, l \in 1..Len(keys) :
            k < l => IndexIn(Params(ctor), keys[k]) < IndexIn(Params(ctor), keys[l])

\* C12: the keys of a node a schema constructor returns are in the order
\* the constructor declares its fields, whatever order the caller writes
\* the keyword arguments in; so are the keys of the species groups and of
\* the atom records _get_species_list builds.
C12_DeclaredOrder ==
    /\ Returned("create") => InDeclaredOrder(input.ctor, result.value)
    /\ Returned("_get_species_list") =>
          \A g \in 1..Len(result.value.l) :
              /\ InDeclaredOrder("sphinx.structure.species", result.value.l[g])
              /\ \A k \in 1..Len(AtomsOf(result.value.l, g)) :
                    InDeclaredOrder("sphinx.structure.species.atom",
                                    AtomsOf(result.value.l, g)[k])

\* the supplied values that are not of the declared type of their field
Mismatched ==
    {f \in DOMAIN input.kw :
        /\ input.kw[f] # None
        /\ ~Compatible(DeclaredType(input.ctor, f), input.kw[f])}

SameLengths ==
    /\ Len(input.positions) = Len(input.symbols)
    /\ Len(input.magmoms) = Len(input.symbols)
    /\ Len(input.fixed) = Len(input.symbols)

\* the species list get_structure_group builds of the structure at lines 73-77
SpeciesOf(structure) ==
    _get_species_list(_to_angstrom(CellOf(structure), PositionsOf(structure)).positions,
                      structure.symbols, structure.magmoms, Movable(structure))

\* C15: an encode call either returns a complete document or raises.  On
\* a structure whose per-atom sequences differ in length neither
\* get_structure_group nor the species list it builds returns anything,
\* and the error get_structure_group raises is the error the building of
\* the species list raised; a species list that is returned has a group
\* for every element and an atom record for every atom.
C15_Atomic ==
    /\ (call.fn \in {"get_structure_group", "_get_species_list"} /\ ~SameLengths) =>
          /\ result.status = "raise"
          /\ result = SpeciesOf(input)
    /\ Returned("_get_species_list") =>
          /\ Len(result.value.l) = Cardinality(Range(input.symbols))
          /\ TotalAtoms(result.value.l, Len(result.value.l)) = Len(input.positions)

\* C16: when the per-atom arrays handed to _get_species_list do not all
\* have the same length, the call fails with a ValueError.
C16_LengthMismatchValueError ==
    (call.fn = "_get_species_list" /\ input.kind = "arrays" /\ ~SameLengths)
        => result = Raise("ValueError")

\* C17: get_structure_group on a structure with zero atoms raises nothing:
\* it returns a structure node whose species sequence is empty together with
\* an empty list of spin declarations.
C17_EmptyStructure ==
    (call.fn = "get_structure_group" /\ call.use_symmetry /\ NAtoms = 0) =>
        /\ result.status = "return"
        /\ Get(result.value[1], "species") = PyList(<<>>)
        /\ result.value[2] = PyList(<<>>)

\* C18: for a structure with zero atoms id_ase_to_spx and id_spx_to_ase
\* both return the empty permutation and raise nothing.
C18_EmptyPermutation ==
    (call.fn \in {"id_ase_to_spx", "id_spx_to_ase"} /\ NAtoms = 0) =>
        result = Return(PyArray(<<>>))

C18_Witness ==
    /\ call.fn = "id_ase_to_spx"
    /\ input.symbols = <<>>
    /\ result = Return(PyArray(<<>>))

\* the species labels are in non-decreasing sorted order
SortedLabels(symbols) ==
    \A i, j \in 1..Len(symbols) : i < j => ~StrLess(symbols[j], symbols[i])

\* C19: for a structure whose species labels are already in non-decreasing
\* sorted order id_ase_to_spx and id_spx_to_ase both return the identity
\* permutation [0, 1, ..., N-1]; a single atom gives [0].
C19_SortedIsIdentity ==
    ((Returned("id_ase_to_spx") \/ Returned("id_spx_to_ase")) /\ SortedLabels(input.symbols)) =>
        result.value.a = Array([k \in 1..NAtoms |-> k - 1])

C19_Witness ==
    /\ Returned("id_spx_to_ase")
    /\ input.symbols = <<"Al", "Fe", "Fe">>
    /\ result.value.a = <<0, 1, 2>>

\* C20: in the order id_ase_to_spx returns, the atoms of one species are
\* contiguous, the species follow each other in ascending order of their
\* labels, and the native indices of one species are strictly increasing.
C20_GroupedOrder ==
    Returned("id_ase_to_spx") =>
        LET a      == result.value.a
            sym(k) == input.symbols[a[k] + 1]
        IN  /\ \A k, m, l \in 1..Len(a) :
                  (k < m /\ m < l /\ sym(k) = sym(l)) => sym(m) = sym(k)
            /\ \A k, l \in 1..Len(a) :
                  k < l => /\ ~StrLess(sym(l), sym(k))
                           /\ sym(k) = sym(l) => a[k] < a[l]

C20_Witness ==
    /\ Returned("id_ase_to_spx")
    /\ input.symbols = <<"O", "Fe", "O">>
    /\ result.value.a = <<1, 0, 2>>

\* rank of the label among the sorted distinct labels of the structure
ClassIndex(symbols, i) ==
    Cardinality({x \in Range(symbols) : StrLess(x, symbols[i])})

\* C21: the sort key class_index + position / N of every atom (held as
\* its numerator over N) lies in [class_index, class_index + 1), no two
\* atoms have the same key, and the returned order is strictly ascending in
\* the key.
C21_KeyRange ==
    (Returned("id_ase_to_spx") /\ NAtoms >= 1) =>
        LET N    == NAtoms
            keys == sort_keys(input.symbols)
            a    == result.value.a
        IN  /\ Len(keys) = N
            /\ \A i \in 1..N :
                  /\ ClassIndex(input.symbols, i) * N <= keys[i]
                  /\ keys[i] < (ClassIndex(input.symbols, i) + 1) * N
            /\ \A i, j \in 1..N : i # j => keys[i] # keys[j]
            /\ \A k, l \in 1..N : k < l => keys[a[k] + 1] < keys[a[l] + 1]

C21_Witness ==
    /\ Returned("id_ase_to_spx")
    /\ input.symbols = <<"Fe", "Al", "Fe">>
    /\ sort_keys(input.symbols) = <<3, 1, 5>>
    /\ result.value.a = <<1, 0, 2>>

\* the descriptor has one of the two forms: the single key movable, or the
\* three axis keys
OneForm(keys) ==
    \/ /\ "movable" \in keys
       /\ keys \cap Range(AxisKeys) = {}
    \/ /\ "movable" \notin keys
       /\ Range(AxisKeys) \subseteq keys

\* C22: every descriptor _get_movable returns and every atom record
\* _get_atom_list builds has either the key movable and no axis key, or the
\* three axis keys and no key movable.
C22_DescriptorForm ==
    /\ Returned("_get_movable") => OneForm(Keys(result.value))
    /\ Returned("_get_species_list") =>
          \A g \in 1..Len(result.value.l) :
              \A k \in 1..Len(AtomsOf(result.value.l, g)) :
                  OneForm(Keys(AtomsOf(result.value.l, g)[k]))

\* the native atoms (1-based) of the element of species group g, ascending
RECURSIVE AscendingSeq(_)
AscendingSeq(S) ==
    IF S = {} THEN <<>>
    ELSE LET m == CHOOSE x \in S : \A y \in S : x <= y
         IN  <<m>> \o AscendingSeq(S \ {m})

NativeAtomsOf(groups, g) ==
    AscendingSeq({i \in 1..NAtoms : PyStr(input.symbols[i]) = Get(groups[g], "element")})

\* the atom record the structure prescribes for native atom i
OwnRecord(i) ==
    PyDict(<< <<"coords", CoordsOfAtom(i)>>,
              <<"label", PyStr(_get_spin_label(input.magmoms[i]))>> >>
           \o _get_movable(Array([c \in 1..3 |-> ~input.fixed[i][c]])).items)

\* C23: inside each species group the atom records are in ascending native
\* index of the atoms of that element, and the record of native atom i
\* carries atom i's own coordinates, the label of its own magnetic moment
\* and the descriptor of its own movability.
C23_AlignedRecords ==
    (Returned("_get_species_list") /\ input.kind = "structure") =>
        \A g \in 1..Len(result.value.l) :
            LET atoms  == AtomsOf(result.value.l, g)
                native == NativeAtomsOf(result.value.l, g)
            IN  /\ Len(atoms) = Len(native)
                /\ \A k \in 1..Len(atoms) : atoms[k] = OwnRecord(native[k])

C23_Witness ==
    /\ Returned("_get_species_list")
    /\ input.kind = "structure"
    /\ input.symbols = <<"O", "Fe", "O">>
    /\ input.magmoms = <<Zero, One, One>>
    /\ input.fixed = <<Free, Free, <<FALSE, TRUE, FALSE>>>>
    /\ Len(result.value.l) = 2
    /\ Get(AtomsOf(result.value.l, 2)[2], "label") = PyStr("spin_1.0")
    /\ Get(AtomsOf(result.value.l, 2)[2], "movableY") = PyBool(FALSE)
    /\ Get(AtomsOf(result.value.l, 2)[1], "label") = PyStr("spin_0.0")

\* the atom record of native atom i in the species groups
RecordOf(groups, i) ==
    LET p == CHOOSE p \in PlacesOf(groups, i) : TRUE
    IN  AtomsOf(groups, p[1])[p[2]]

\* C24: two atoms receive the same spin label if and only if their
\* magnetic moments are equal numbers.
C24_LabelInjective ==
    (Returned("_get_species_list") /\ input.kind = "structure") =>
        \A i, j \in 1..NAtoms :
            (Get(RecordOf(result.value.l, i), "label")
                = Get(RecordOf(result.value.l, j), "label"))
            <=> (FloatVal(input.magmoms[i]) = FloatVal(input.magmoms[j]))

\* whether the record encodes atom movable along axis c (1, 2, 3)
EncodedMovable(record, c) ==
    IF HasKey(record, "movable") THEN Get(record, "movable").b
    ELSE Get(record, AxisKeys[c]).b

\* C25: the movability encoded for every atom and axis is the negation of
\* the structure's motion-constraint flag of that atom and axis; an
\* unconstrained atom gets {movable: true} and an atom fixed on all three
\* axes gets {movable: false}.
C25_MovableIsNotFixed ==
    (Returned("_get_species_list") /\ input.kind = "structure") =>
        \A i \in 1..NAtoms :
            LET record == RecordOf(result.value.l, i)
            IN  /\ \A c \in 1..3 : EncodedMovable(record, c) = ~input.fixed[i][c]
                /\ input.fixed[i] = Free =>
                      /\ Get(record, "movable") = PyBool(TRUE)
                      /\ Keys(record) = {"coords", "label", "movable"}
                /\ input.fixed[i] = <<TRUE, TRUE, TRUE>> =>
                      /\ Get(record, "movable") = PyBool(FALSE)
                      /\ Keys(record) = {"coords", "label", "movable"}

C25_Witness ==
    /\ Returned("_get_species_list")
    /\ input.kind = "structure"
    /\ input.fixed = <<Free, <<TRUE, TRUE, TRUE>>, <<FALSE, TRUE, FALSE>>>>
    /\ Get(RecordOf(result.value.l, 1), "movable") = PyBool(TRUE)
    /\ Get(RecordOf(result.value.l, 2), "movable") = PyBool(FALSE)
    /\ Get(RecordOf(result.value.l, 3), "movableX") = PyBool(TRUE)
    /\ Get(RecordOf(result.value.l, 3), "movableY") = PyBool(FALSE)

\* what a call gives on a structure
ResultOf(c, structure) ==
    CASE c.fn = "id_ase_to_spx" -> Return(PyArray(id_ase_to_spx(structure)))
      [] c.fn = "id_spx_to_ase" -> Return(PyArray(id_spx_to_ase(structure)))
      [] c.fn = "get_structure_group" -> get_structure_group(structure, c.use_symmetry)
      [] c.fn = "_get_species_list" -> SpeciesOf(structure)

\* C26: no call changes the structure it is given (cell, positions,
\* symbols, moments and constraints are after the call what they were
\* before it, whether it returns or raises), and no call depends on an
\* earlier one: whatever was called before, a call gives what it gives on
\* the structure as the caller first built it.
C26_InputUnchanged ==
    /\ [][input' = input]_vars
    /\ [](call.fn \in {"id_ase_to_spx", "id_spx_to_ase", "get_structure_group",
                       "_get_species_list"}
            => result = ResultOf(call, snapshot))

C26_Witness ==
    /\ again
    /\ call.fn = "get_structure_group"
    /\ result.status = "raise"
    /\ input.symbols = <<"O", "Fe", "Fe">>
    /\ input.fixed = <<Free, <<TRUE, TRUE, TRUE>>, <<FALSE, TRUE, FALSE>>>>
    /\ input.cell = IdentityCell
    /\ input.positions = NativePositions(3)
    /\ input = snapshot

\* the atom records of the species groups 1..g, one group after the other
RECURSIVE FlatAtoms(_, _)
FlatAtoms(groups, g) ==
    IF g = 0 THEN <<>> ELSE FlatAtoms(groups, g - 1) \o AtomsOf(groups, g)

\* C27: the atom records of the species groups, taken group after group,
\* list the native atoms in the order id_ase_to_spx returns, and
\* id_spx_to_ase gives the place of every native atom in that list.
C27_OracleAgrees ==
    (Returned("_get_species_list") /\ input.kind = "structure") =>
        LET flat    == FlatAtoms(result.value.l, Len(result.value.l))
            forward == id_ase_to_spx(input)
            inverse == id_spx_to_ase(input)
        IN  /\ Len(flat) = Len(forward)
            /\ \A k \in 1..Len(flat) :
                  Get(flat[k], "coords") = CoordsOfAtom(forward[k] + 1)
            /\ \A i \in 1..NAtoms :
                  Get(flat[inverse[i] + 1], "coords") = CoordsOfAtom(i)

C27_Witness ==
    /\ Returned("_get_species_list")
    /\ input.symbols = <<"O", "Fe", "Al">>
    /\ id_ase_to_spx(input) = <<2, 1, 0>>
    /\ Get(AtomsOf(result.value.l, 1)[1], "coords") = CoordsOfAtom(3)
    /\ Get(AtomsOf(result.value.l, 3)[1], "coords") = CoordsOfAtom(1)

\* C28: a false supplied for a movability field is kept.  A constructor
\* given False for a field returns a node with that key and value; the
\* record of an atom fixed on all three axes has the key movable with value
\* false, and the record of a partly fixed atom has all three axis keys,
\* those with value false included.
C28_FalseIsPresent ==
    /\ Returned("create") =>
          \A f \in DOMAIN input.kw :
              input.kw[f] = PyBool(FALSE) =>
                  HasKey(result.value, f) /\ Get(result.value, f) = PyBool(FALSE)
    /\ (Returned("_get_species_list") /\ input.kind = "structure") =>
          \A i \in 1..NAtoms :
              LET record == RecordOf(result.value.l, i)
                  fixed  == input.fixed[i]
              IN  /\ (\A c \in 1..3 : fixed[c]) =>
                        HasKey(record, "movable") /\ Get(record, "movable") = PyBool(FALSE)
                  /\ ((\E c \in 1..3 : fixed[c]) /\ (\E c \in 1..3 : ~fixed[c])) =>
                        \A c \in 1..3 :
                            /\ HasKey(record, AxisKeys[c])
                            /\ Get(record, AxisKeys[c]) = PyBool(~fixed[c])

C28_Witness ==
    /\ Returned("_get_species_list")
    /\ input.kind = "structure"
    /\ input.fixed = <<<<TRUE, TRUE, TRUE>>, <<FALSE, TRUE, FALSE>>>>
    /\ Keys(RecordOf(result.value.l, 1)) = {"coords", "label", "movable"}
    /\ Get(RecordOf(result.value.l, 1), "movable") = PyBool(FALSE)
    /\ Keys(RecordOf(result.value.l, 2))
          = {"coords", "label", "movableX", "movableY", "movableZ"}
    /\ Get(RecordOf(result.value.l, 2), "movableY") = PyBool(FALSE)

\* C29: get_structure_group returns, and the labels carried by the atom
\* records of the structure node are exactly the labels of the returned
\* spin declarations.
C29_LabelsDeclared ==
    (call.fn = "get_structure_group" /\ call.use_symmetry) =>
        /\ result.status = "return"
        /\ LET groups == Get(result.value[1], "species").l
               flat   == FlatAtoms(groups, Len(groups))
               decl   == result.value[2].l
           IN  {Get(flat[k], "label") : k \in 1..Len(flat)}
                  = {Get(decl[k], "label") : k \in 1..Len(decl)}

\* C30: the species groups are in strictly ascending order of their element
\* labels, whatever the order in which the elements first appear, and no
\* group has an empty atom list.
C30_GroupsSorted ==
    Returned("_get_species_list") =>
        LET groups == result.value.l
        IN  /\ \A g, h \in 1..Len(groups) :
                  g < h => StrLess(Get(groups[g], "element").s, Get(groups[h], "element").s)
            /\ \A g \in 1..Len(groups) : Len(AtomsOf(groups, g)) > 0

C30_Witness ==
    /\ Returned("_get_species_list")
    /\ input.symbols = <<"O", "Fe", "Fe">>
    /\ Len(result.value.l) = 2
    /\ Get(result.value.l[1], "element") = PyStr("Fe")
    /\ Get(result.value.l[2], "element") = PyStr("O")
    /\ Len(AtomsOf(result.value.l, 1)) = 2

====
